---- MODULE Spec2Model ----
(***************************************************************************)
(* Model of the silhouette service container (src/src/lib.rs).             *)
(*                                                                         *)
(* The container keeps three tables keyed by TypeId: `bindings` (transient *)
(* factories), `instances` (thunks returning a clone of a cached value)    *)
(* and the vector `scoped_instances`.  Every method of Container is an     *)
(* operator from a container value to an outcome, translated statement by  *)
(* statement; the actions apply one method to the container of the state.  *)
(***************************************************************************)
EXTENDS Integers, Sequences, FiniteSets, TLC

\* ---------------------------------------------------------------- bounds
MaxScoped == 2       \* cap on the length of the scoped_instances vector

Types == {"DBPool", "DBConnection"}   \* the TypeIds callers register
Values == {"Hello", "Goodbye"}        \* payloads a factory can produce
MaxDepth == Cardinality(Types)        \* nested resolves before a type repeats

\* ------------------------------------------------- factories and values
\* A factory is caller code `Fn(&Container) -> T`.  Two shapes are drawn:
\* a closure returning a fixed value, and a closure that resolves the pool
\* from the container it is handed and unwraps the result (registered for
\* the pool itself, such a closure reads the pool it is about to replace).
ConstFactory(v) == [kind |-> "const", val |-> v]
DepFactory(U) == [kind |-> "dep", on |-> U]
Factories == {ConstFactory(v) : v \in Values} \cup {DepFactory("DBPool")}

\* HashMap::get returning None
NoEntry == [kind |-> "none"]

\* Box<dyn Any>: the payload together with the TypeId it was boxed with
ErasedValue(T, v) == [kind |-> "some", type |-> T, val |-> v]

\* Box<dyn Any>::downcast::<T>() followed by map_err(|_| Error::CastFailed)
downcast(boxed, T) ==
    IF boxed.type = T
    THEN [kind |-> "ok", val |-> boxed.val]
    ELSE [kind |-> "err", val |-> "CastFailed"]

\* without the `nightly` feature there is no Default fallback
try_default_if_enabled(T) == NoEntry

\* ------------------------------------------------------------ container
new == [bindings |-> [T \in Types |-> NoEntry],
        instances |-> [T \in Types |-> NoEntry],
        scoped_instances |-> << >>]

contains_key(map, T) == map[T] # NoEntry

contains(vec, T) == \E i \in 1..Len(vec) : vec[i] = T

RECURSIVE resolve_at(_, _, _)
RECURSIVE invoke(_, _, _, _)

\* factory(container) for a factory registered for type T.  `log` lists the
\* factory invocations made, outermost first.  A closure that unwraps a
\* failed resolve panics; a chain of nested resolves that comes back to a
\* type already being resolved never returns (the stack overflows).
invoke(F, T, c, fuel) ==
    LET me == [key |-> T, f |-> F] IN
    IF F.kind = "const"
    THEN [kind |-> "ok", val |-> F.val, log |-> <<me>>]
    ELSE IF fuel = 0
         THEN [kind |-> "overflow", val |-> "-", log |-> <<me>>]
         ELSE LET r == resolve_at(c, F.on, fuel - 1) IN
              IF r.kind = "ok"
              THEN [kind |-> "ok", val |-> r.val, log |-> <<me>> \o r.log]
              ELSE IF r.kind = "err"
                   THEN [kind |-> "panic", val |-> "-", log |-> <<me>> \o r.log]
                   ELSE [kind |-> r.kind, val |-> "-", log |-> <<me>> \o r.log]

\* resolve as it would be with the two lookups in the other order
resolve_at_factory_first(c, T, fuel) ==
    IF c.bindings[T] # NoEntry
    THEN LET b == invoke(c.bindings[T], T, c, fuel) IN
         IF b.kind = "ok"
         THEN LET d == downcast(ErasedValue(T, b.val), T) IN
              [kind |-> d.kind, val |-> d.val, log |-> b.log]
         ELSE b
    ELSE IF c.instances[T] # NoEntry
         THEN LET d == downcast(c.instances[T], T) IN
              [kind |-> d.kind, val |-> d.val, log |-> << >>]
         ELSE [kind |-> "err", val |-> "NotFound", log |-> << >>]

\* Container::resolve::<T>(&self); fuel counts the nested resolves still
\* possible before some type is necessarily being resolved a second time
resolve_at(c, T, fuel) ==
    IF c.instances[T] # NoEntry
    THEN LET d == downcast(c.instances[T], T) IN
         [kind |-> d.kind, val |-> d.val, log |-> << >>]
    ELSE IF c.bindings[T] # NoEntry
         THEN LET b == invoke(c.bindings[T], T, c, fuel) IN
              IF b.kind = "ok"
              THEN LET d == downcast(ErasedValue(T, b.val), T) IN
                   [kind |-> d.kind, val |-> d.val, log |-> b.log]
              ELSE b
         ELSE IF try_default_if_enabled(T) # NoEntry
              THEN [kind |-> "ok", val |-> try_default_if_enabled(T).val, log |-> << >>]
              ELSE [kind |-> "err", val |-> "NotFound", log |-> << >>]

\* a resolve called by the owner of the container
resolve(c, T) == resolve_at(c, T, MaxDepth)

\* bind as it would be if it ran the factory once when registering it
bind_eager(c, T, F) ==
    [c |-> [c EXCEPT !.instances[T] = NoEntry, !.bindings[T] = F],
     kind |-> "ok", log |-> invoke(F, T, c, MaxDepth).log]

\* bind as it would be without the remove of the cached instance
bind_keeps_instance(c, T, F) ==
    [c |-> [c EXCEPT !.bindings[T] = F], kind |-> "ok", log |-> << >>]

\* bind as it would be if it cleared the whole instance table
bind_clears_instances(c, T, F) ==
    [c |-> [c EXCEPT !.instances = [U \in Types |-> NoEntry], !.bindings[T] = F],
     kind |-> "ok", log |-> << >>]

\* Container::bind
bind(c, T, F) ==
    [c |-> [c EXCEPT !.instances[T] = NoEntry, !.bindings[T] = F],
     kind |-> "ok", log |-> << >>]

\* bind_if as it would be if a cached instance counted as a registration
bind_if_any_table(c, T, F) ==
    IF ~contains_key(c.bindings, T) /\ ~contains_key(c.instances, T)
    THEN bind(c, T, F)
    ELSE [c |-> c, kind |-> "ok", log |-> << >>]

\* Container::bind_if
bind_if(c, T, F) ==
    IF ~contains_key(c.bindings, T)
    THEN bind(c, T, F)
    ELSE [c |-> c, kind |-> "ok", log |-> << >>]

\* singleton as it would be if it stored the factory instead of its result
singleton_deferred(c, T, F) ==
    [c |-> [c EXCEPT !.instances[T] = NoEntry, !.bindings[T] = F],
     kind |-> "ok", log |-> << >>]

\* singleton as it would be if it dropped the old entry before running the
\* factory
singleton_evicts_first(c, T, F) ==
    LET result == invoke(F, T, c, MaxDepth) IN
    IF result.kind = "ok"
    THEN [c |-> [c EXCEPT !.instances[T] = ErasedValue(T, result.val)],
          kind |-> "ok", log |-> result.log]
    ELSE [c |-> [c EXCEPT !.instances[T] = NoEntry],
          kind |-> result.kind, log |-> result.log]

\* Container::singleton: the factory runs first, the insert follows only
\* when it returned
singleton(c, T, F) ==
    LET result == invoke(F, T, c, MaxDepth) IN
    IF result.kind = "ok"
    THEN [c |-> [c EXCEPT !.instances[T] = ErasedValue(T, result.val)],
          kind |-> "ok", log |-> result.log]
    ELSE [c |-> c, kind |-> result.kind, log |-> result.log]

\* singleton_if as it would be if a registered factory counted as well
singleton_if_any_table(c, T, F) ==
    IF ~contains_key(c.instances, T) /\ ~contains_key(c.bindings, T)
    THEN singleton(c, T, F)
    ELSE [c |-> c, kind |-> "ok", log |-> << >>]

\* Container::singleton_if
singleton_if(c, T, F) ==
    IF ~contains_key(c.instances, T)
    THEN singleton(c, T, F)
    ELSE [c |-> c, kind |-> "ok", log |-> << >>]

\* Container::scoped: push, then singleton
scoped(c, T, F) ==
    singleton([c EXCEPT !.scoped_instances = Append(@, T)], T, F)

\* scoped_if as it would be if it looked for a cached instance, the way
\* singleton_if does
scoped_if_by_instance(c, T, F) ==
    IF ~contains_key(c.instances, T)
    THEN scoped(c, T, F)
    ELSE [c |-> c, kind |-> "ok", log |-> << >>]

\* Container::scoped_if
scoped_if(c, T, F) ==
    IF ~contains(c.scoped_instances, T)
    THEN scoped(c, T, F)
    ELSE [c |-> c, kind |-> "ok", log |-> << >>]

\* the loop of forget_scoped_instances: one remove per element of the vector
RECURSIVE remove_each(_, _)
remove_each(map, vec) ==
    IF vec = << >>
    THEN map
    ELSE remove_each([map EXCEPT ![Head(vec)] = NoEntry], Tail(vec))

\* forget_scoped_instances as it would be if the loop stopped after the
\* first element
forget_first_only(c) ==
    [c |-> [c EXCEPT !.instances =
                IF c.scoped_instances = << >>
                THEN @
                ELSE [@ EXCEPT ![Head(c.scoped_instances)] = NoEntry]],
     kind |-> "ok", log |-> << >>]

\* forget_scoped_instances as it would be if it emptied the vector as well
forget_and_unmark(c) ==
    [c |-> [c EXCEPT !.instances = remove_each(c.instances, c.scoped_instances),
                     !.scoped_instances = << >>],
     kind |-> "ok", log |-> << >>]

\* Container::forget_scoped_instances
forget_scoped_instances(c) ==
    [c |-> [c EXCEPT !.instances = remove_each(c.instances, c.scoped_instances)],
     kind |-> "ok", log |-> << >>]

\* flush as it would be without the clear of scoped_instances
flush_keeps_scoped(c) ==
    [c |-> [bindings |-> [T \in Types |-> NoEntry],
            instances |-> [T \in Types |-> NoEntry],
            scoped_instances |-> c.scoped_instances],
     kind |-> "ok", log |-> << >>]

\* Container::flush
flush(c) ==
    [c |-> [bindings |-> [T \in Types |-> NoEntry],
            instances |-> [T \in Types |-> NoEntry],
            scoped_instances |-> << >>],
     kind |-> "ok", log |-> << >>]

\* ---------------------------------------------------------------- state
VARIABLES
    bindings,          \* Container.bindings
    instances,         \* Container.instances
    scoped_instances,  \* Container.scoped_instances
    alive,             \* FALSE once a stack overflow has aborted the process
    last,              \* the most recent call: method, type, what it found, outcome
    history,           \* per type: the latest registration that took effect
    once,              \* SERVICE_CONTAINER: the OnceLock and how often it was set
    holds,             \* per thread: the RwLock guard it holds
    poisoned,          \* the poison flag of the RwLock
    pc,                \* per thread: where it is inside a facade function
    arg,               \* per thread: the facade call being carried out
    committed,         \* the container as the last finished writer left it
    panics             \* the guard modes under which a thread has panicked

\* the process-wide state used by the static facade (src/src/facade.rs)
fvars == <<once, holds, poisoned, pc, arg, committed, panics>>

vars == <<bindings, instances, scoped_instances, alive, last, history, fvars>>

\* the container of the current state
self == [bindings |-> bindings, instances |-> instances,
         scoped_instances |-> scoped_instances]

NoKey == "-"
NoCall == [op |-> "new", key |-> NoKey, kind |-> "ok", val |-> "-", by |-> "-",
           pre |-> [instance |-> FALSE, binding |-> FALSE, scoped |-> FALSE]]
NoPre == NoCall.pre
NoHistory == [by |-> "none", val |-> "-", forgot |-> FALSE]

Threads == {"t1", "t2"}
NoArg == [mode |-> "-"]

\* no thread has touched the facade yet
FacadeIdle ==
    /\ once = [state |-> "uninit", inits |-> 0]
    /\ holds = [t \in Threads |-> "none"]
    /\ poisoned = FALSE
    /\ pc = [t \in Threads |-> "idle"]
    /\ arg = [t \in Threads |-> NoArg]
    /\ committed = new
    /\ panics = {}

\* what the call found for its type before it ran
Pre(T) == [instance |-> contains_key(instances, T),
           binding |-> contains_key(bindings, T),
           scoped |-> contains(scoped_instances, T)]

\* what a call without a type parameter found in the tables before it ran
PreAll == [instance |-> \E T \in Types : contains_key(instances, T),
           binding |-> \E T \in Types : contains_key(bindings, T),
           scoped |-> scoped_instances # << >>]

Init ==
    /\ bindings = new.bindings
    /\ instances = new.instances
    /\ scoped_instances = new.scoped_instances
    /\ alive = TRUE
    /\ last = NoCall
    /\ history = [T \in Types |-> NoHistory]
    /\ FacadeIdle

\* the state after a &mut self method returned, panicked or overflowed
Apply(op, T, pre, out) ==
    /\ alive
    /\ Len(out.c.scoped_instances) <= MaxScoped
    /\ bindings' = out.c.bindings
    /\ instances' = out.c.instances
    /\ scoped_instances' = out.c.scoped_instances
    /\ alive' = (out.kind # "overflow")
    /\ last' = [op |-> op, key |-> T, kind |-> out.kind, val |-> "-", by |-> "-",
                pre |-> pre]
    /\ UNCHANGED fvars

\* the registration of T took effect: remember which method made it and,
\* for a cached value, what the factory returned inside that call
Registered(T, by, v) ==
    history' = [history EXCEPT ![T] = [by |-> by, val |-> v, forgot |-> FALSE]]

CallBind ==
    \E T \in Types, F \in Factories :
        /\ Apply("bind", T, Pre(T), bind(self, T, F))
        /\ Registered(T, "bind", "-")

CallBindIf ==
    \E T \in Types, F \in Factories :
        /\ Apply("bind_if", T, Pre(T), bind_if(self, T, F))
        /\ IF contains_key(bindings, T)
           THEN UNCHANGED history
           ELSE Registered(T, "bind", "-")

CallSingleton ==
    \E T \in Types, F \in Factories :
        LET produced == invoke(F, T, self, MaxDepth) IN
        /\ Apply("singleton", T, Pre(T), singleton(self, T, F))
        /\ IF produced.kind = "ok"
           THEN Registered(T, "singleton", produced.val)
           ELSE UNCHANGED history

CallSingletonIf ==
    \E T \in Types, F \in Factories :
        LET produced == invoke(F, T, self, MaxDepth) IN
        /\ Apply("singleton_if", T, Pre(T), singleton_if(self, T, F))
        /\ IF ~contains_key(instances, T) /\ produced.kind = "ok"
           THEN Registered(T, "singleton", produced.val)
           ELSE UNCHANGED history

CallScoped ==
    \E T \in Types, F \in Factories :
        LET produced == invoke(F, T, self, MaxDepth) IN
        /\ Apply("scoped", T, Pre(T), scoped(self, T, F))
        /\ IF produced.kind = "ok"
           THEN Registered(T, "scoped", produced.val)
           ELSE UNCHANGED history

CallScopedIf ==
    \E T \in Types, F \in Factories :
        LET produced == invoke(F, T, self, MaxDepth) IN
        /\ Apply("scoped_if", T, Pre(T), scoped_if(self, T, F))
        /\ IF ~contains(scoped_instances, T) /\ produced.kind = "ok"
           THEN Registered(T, "scoped", produced.val)
           ELSE UNCHANGED history

\* resolve as it would be if it kept what a factory returned
CallResolve_caching ==
    \E T \in Types :
        LET r == resolve(self, T) IN
        /\ alive
        /\ alive' = (r.kind # "overflow")
        /\ last' = [op |-> "resolve", key |-> T, kind |-> r.kind, val |-> r.val,
                    by |-> "-", pre |-> Pre(T)]
        /\ instances' = IF r.kind = "ok"
                        THEN [instances EXCEPT ![T] = ErasedValue(T, r.val)]
                        ELSE instances
        /\ UNCHANGED <<bindings, scoped_instances, history, fvars>>

\* resolve takes &self: whatever it returns, the container is the same
CallResolve ==
    \E T \in Types :
        LET r == resolve(self, T) IN
        /\ alive
        /\ alive' = (r.kind # "overflow")
        /\ last' = [op |-> "resolve", key |-> T, kind |-> r.kind, val |-> r.val,
                    by |-> "-", pre |-> Pre(T)]
        /\ UNCHANGED <<bindings, instances, scoped_instances, history, fvars>>

CallForgetScopedInstances ==
    /\ Apply("forget_scoped_instances", NoKey, PreAll, forget_scoped_instances(self))
    /\ history' = [T \in Types |-> [history[T] EXCEPT !.forgot = TRUE]]

CallFlush ==
    /\ Apply("flush", NoKey, PreAll, flush(self))
    /\ history' = [T \in Types |-> NoHistory]

Next ==
    \/ CallBind
    \/ CallBindIf
    \/ CallScoped
    \/ CallScopedIf
    \/ CallSingleton
    \/ CallSingletonIf
    \/ CallResolve
    \/ CallForgetScopedInstances
    \/ CallFlush

Spec == Init /\ [][Next]_vars

\* the call came back to its caller: it returned or it unwound with a panic
Returned(out) == out.kind # "overflow"

\* --------------------------------------------------------- static facade
\* Threads call the functions of facade::Container.  Each function fetches
\* the process-wide RwLock<Container>, takes the guard its delegate needs,
\* calls the Container method and drops the guard.  The container of the
\* state is the one inside SERVICE_CONTAINER.

\* Facade callers register the connection type and resolve either type; the
\* third closure shape resolves the pool through the facade instead of
\* through the container it is handed.
FacadeKeys == {"DBConnection"}
FacadeFactory(U) == [kind |-> "facade", on |-> U]
FacadeFactories == Factories \cup {FacadeFactory("DBPool")}

WriteCalls ==
    {[fn |-> fn, key |-> T, f |-> F] :
        fn \in {"bind", "bind_if", "scoped", "scoped_if", "singleton", "singleton_if"},
        T \in FacadeKeys, F \in FacadeFactories}
    \cup {[fn |-> fn, key |-> NoKey, f |-> NoEntry] :
            fn \in {"forget_scoped_instances", "flush"}}

\* container_w.<fn>(factory)
delegate(call, c) ==
    CASE call.fn = "bind" -> bind(c, call.key, call.f)
      [] call.fn = "bind_if" -> bind_if(c, call.key, call.f)
      [] call.fn = "scoped" -> scoped(c, call.key, call.f)
      [] call.fn = "scoped_if" -> scoped_if(c, call.key, call.f)
      [] call.fn = "singleton" -> singleton(c, call.key, call.f)
      [] call.fn = "singleton_if" -> singleton_if(c, call.key, call.f)
      [] call.fn = "forget_scoped_instances" -> forget_scoped_instances(c)
      [] call.fn = "flush" -> flush(c)

\* the delegate calls the factory it was given
runs_factory(call, c) ==
    \/ call.fn \in {"singleton", "scoped"}
    \/ call.fn = "singleton_if" /\ ~contains_key(c.instances, call.key)
    \/ call.fn = "scoped_if" /\ ~contains(c.scoped_instances, call.key)

\* the container after the first statement of the delegate that changes it
\* (singleton changes nothing before its factory has returned)
first_statement(call, c) ==
    CASE call.fn = "bind" -> [c EXCEPT !.instances[call.key] = NoEntry]
      [] call.fn = "bind_if" ->
            IF ~contains_key(c.bindings, call.key)
            THEN [c EXCEPT !.instances[call.key] = NoEntry]
            ELSE c
      [] call.fn = "scoped" -> [c EXCEPT !.scoped_instances = Append(@, call.key)]
      [] call.fn = "scoped_if" ->
            IF ~contains(c.scoped_instances, call.key)
            THEN [c EXCEPT !.scoped_instances = Append(@, call.key)]
            ELSE c
      [] call.fn = "forget_scoped_instances" ->
            IF c.scoped_instances = << >>
            THEN c
            ELSE [c EXCEPT !.instances[Head(c.scoped_instances)] = NoEntry]
      [] call.fn = "flush" -> [c EXCEPT !.bindings = [T \in Types |-> NoEntry]]
      [] OTHER -> c

\* a lock that hands out read guards while a writer is at work
can_read_during_write(t) == TRUE

\* a lock whose read guard excludes other readers too
can_read_exclusive(t) == \A u \in Threads : holds[u] = "none"

\* RwLock::read is granted while no thread holds the write guard
can_read(t) == \A u \in Threads : holds[u] # "write"

\* RwLock::write is granted while no thread holds any guard
can_write(t) == \A u \in Threads : holds[u] = "none"

\* a lock without poisoning
poisons_never(mode, kind) == FALSE

\* dropping a guard while unwinding poisons the lock only for a write guard
poisons(mode, kind) == mode = "write" /\ kind = "panic"

SetContainer(c) ==
    /\ bindings' = c.bindings
    /\ instances' = c.instances
    /\ scoped_instances' = c.scoped_instances

\* what the facade function returned to the thread
Returns(t, op, key, kind, val) ==
    /\ pc' = [pc EXCEPT ![t] = "idle"]
    /\ arg' = [arg EXCEPT ![t] = NoArg]
    /\ last' = [op |-> op, key |-> key, kind |-> kind, val |-> val, by |-> t,
                pre |-> NoPre]

\* a thread calls resolve (read) or one of the registering functions (write)
Start(t) ==
    /\ alive /\ pc[t] = "idle"
    /\ \E m \in {"read", "write"} : arg' = [arg EXCEPT ![t] = [mode |-> m]]
    /\ pc' = [pc EXCEPT ![t] = "get_instance"]
    /\ UNCHANGED <<bindings, instances, scoped_instances, alive, last, history,
                   once, holds, poisoned, committed, panics>>

\* a lazy static without the once-guard: a caller arriving while the
\* initializer runs starts another one
GetInstance_racy(t) ==
    /\ pc[t] = "get_instance"
    /\ IF once.state # "done"
       THEN /\ once' = [once EXCEPT !.state = "running"]
            /\ pc' = [pc EXCEPT ![t] = "init"]
       ELSE /\ once' = once
            /\ pc' = [pc EXCEPT ![t] = "acquire"]
    /\ UNCHANGED <<bindings, instances, scoped_instances, alive, last, history,
                   holds, poisoned, arg, committed, panics>>

\* SERVICE_CONTAINER.get_or_init: the first caller runs the initializer,
\* a caller arriving meanwhile waits until the cell is set
GetInstance(t) ==
    /\ pc[t] = "get_instance"
    /\ once.state # "running"
    /\ IF once.state = "uninit"
       THEN /\ once' = [once EXCEPT !.state = "running"]
            /\ pc' = [pc EXCEPT ![t] = "init"]
       ELSE /\ once' = once
            /\ pc' = [pc EXCEPT ![t] = "acquire"]
    /\ UNCHANGED <<bindings, instances, scoped_instances, alive, last, history,
                   holds, poisoned, arg, committed, panics>>

\* the initializer: RwLock::new(Container::new())
InitDone(t) ==
    /\ pc[t] = "init"
    /\ SetContainer(new)
    /\ once' = [state |-> "done", inits |-> once.inits + 1]
    /\ pc' = [pc EXCEPT ![t] = "acquire"]
    /\ UNCHANGED <<alive, last, history, holds, poisoned, arg, committed, panics>>

\* container.read() / container.write(), then map_err(|_| Error::Lock)?:
\* once granted, a poisoned lock hands back an error whose guard is dropped
\* at once and the function returns Err(Lock)
Acquire(t) ==
    /\ pc[t] = "acquire"
    /\ IF arg[t].mode = "read" THEN can_read(t) ELSE can_write(t)
    /\ IF poisoned
       THEN /\ Returns(t, arg[t].mode, NoKey, "err", "Lock")
            /\ UNCHANGED holds
       ELSE /\ holds' = [holds EXCEPT ![t] = arg[t].mode]
            /\ pc' = [pc EXCEPT ![t] = "held"]
            /\ UNCHANGED <<arg, last>>
    /\ UNCHANGED <<bindings, instances, scoped_instances, alive, history,
                   once, poisoned, committed, panics>>

\* container_w.<fn>(factory), up to and including its first statement; a
\* factory that calls the facade is then inside facade::Container::resolve
WriteBegin(t) ==
    /\ pc[t] = "held" /\ arg[t].mode = "write"
    /\ \E call \in WriteCalls :
        LET out == delegate(call, self)
            first == first_statement(call, self)
            reenters == runs_factory(call, self) /\ call.f.kind = "facade"
        IN  /\ Len(out.c.scoped_instances) <= MaxScoped
            /\ Returned(out)
            /\ SetContainer(first)
            /\ pc' = [pc EXCEPT ![t] = IF reenters THEN "nested" ELSE "mid"]
            /\ arg' = [arg EXCEPT ![t] =
                    [mode |-> "write", fn |-> call.fn, key |-> call.key,
                     target |-> IF reenters THEN first ELSE out.c,
                     kind |-> IF reenters THEN "panic" ELSE out.kind]]
    /\ UNCHANGED <<alive, last, history, once, holds, poisoned, committed, panics>>

\* a registering function that returns without dropping its guard
WriteFinish_keeps_guard(t) ==
    /\ pc[t] = "mid"
    /\ SetContainer(arg[t].target)
    /\ committed' = arg[t].target
    /\ Returns(t, arg[t].fn, arg[t].key, arg[t].kind, "-")
    /\ UNCHANGED <<alive, history, once, holds, poisoned, panics>>

\* the rest of the delegate, then drop(container_w) and Ok(()), or the
\* unwinding of a panicking factory, which drops the guard as well
WriteFinish(t) ==
    /\ pc[t] = "mid"
    /\ SetContainer(arg[t].target)
    /\ committed' = arg[t].target
    /\ holds' = [holds EXCEPT ![t] = "none"]
    /\ poisoned' = (poisoned \/ poisons("write", arg[t].kind))
    /\ panics' = IF arg[t].kind = "panic" THEN panics \cup {"write"} ELSE panics
    /\ Returns(t, arg[t].fn, arg[t].key, arg[t].kind, "-")
    /\ UNCHANGED <<alive, history, once>>

\* container_r.resolve(): the lookup and, for a transient binding, the
\* factory call; the guard is still held when the result is there
ReadEvaluate(t) ==
    /\ pc[t] = "held" /\ arg[t].mode = "read"
    /\ \E T \in Types :
        LET r == resolve(self, T)
            reenters == ~contains_key(instances, T) /\ bindings[T].kind = "facade"
        IN  /\ Returned(r)
            /\ pc' = [pc EXCEPT ![t] = IF reenters THEN "nested" ELSE "evaluated"]
            /\ arg' = [arg EXCEPT ![t] =
                    [mode |-> "read", fn |-> "resolve", key |-> T,
                     kind |-> IF reenters THEN "panic" ELSE r.kind,
                     val |-> IF reenters THEN "-" ELSE r.val]]
    /\ UNCHANGED <<bindings, instances, scoped_instances, alive, last, history,
                   once, holds, poisoned, committed, panics>>

\* the end of facade resolve: the read guard is dropped, by the return or
\* by the unwinding of a panicking factory
ReadReturn(t) ==
    /\ pc[t] = "evaluated"
    /\ holds' = [holds EXCEPT ![t] = "none"]
    /\ poisoned' = (poisoned \/ poisons("read", arg[t].kind))
    /\ panics' = IF arg[t].kind = "panic" THEN panics \cup {"read"} ELSE panics
    /\ Returns(t, "resolve", arg[t].key, arg[t].kind, arg[t].val)
    /\ UNCHANGED <<bindings, instances, scoped_instances, alive, history,
                   once, committed>>

\* inside a factory that called the facade: the nested read() is granted
\* (never to a thread that holds the write guard itself), the nested
\* resolve runs and the factory unwraps what it got
NestedRead(t) ==
    /\ pc[t] = "nested"
    /\ can_read(t)
    /\ LET r == resolve(self, arg[t].key) IN
        /\ Returned(r)
        /\ pc' = [pc EXCEPT ![t] = "evaluated"]
        /\ arg' = [arg EXCEPT ![t] =
                [mode |-> "read", fn |-> "resolve", key |-> arg[t].key,
                 kind |-> r.kind, val |-> r.val]]
    /\ UNCHANGED <<bindings, instances, scoped_instances, alive, last, history,
                   once, holds, poisoned, committed, panics>>

\* the nested read() on a lock the thread already holds may panic instead
\* of blocking; the unwinding drops the guard the thread holds
NestedPanic(t) ==
    /\ pc[t] = "nested"
    /\ holds' = [holds EXCEPT ![t] = "none"]
    /\ poisoned' = (poisoned \/ poisons(arg[t].mode, "panic"))
    /\ panics' = panics \cup {arg[t].mode}
    /\ committed' = IF arg[t].mode = "write" THEN self ELSE committed
    /\ Returns(t, arg[t].fn, arg[t].key, "panic", "-")
    /\ UNCHANGED <<bindings, instances, scoped_instances, alive, history, once>>

\* the nested read() of a reader queues behind a writer that is waiting
\* for this reader's guard: neither of the two gets any further
NestedPark(t) ==
    /\ pc[t] = "nested" /\ arg[t].mode = "read"
    /\ \E u \in Threads : pc[u] = "acquire" /\ arg[u].mode = "write"
    /\ pc' = [pc EXCEPT ![t] = "parked"]
    /\ UNCHANGED <<bindings, instances, scoped_instances, alive, last, history,
                   once, holds, poisoned, arg, committed, panics>>

FacadeNext ==
    \/ \E t \in Threads : Start(t)
    \/ \E t \in Threads : GetInstance(t)
    \/ \E t \in Threads : InitDone(t)
    \/ \E t \in Threads : Acquire(t)
    \/ \E t \in Threads : WriteBegin(t)
    \/ \E t \in Threads : WriteFinish(t)
    \/ \E t \in Threads : ReadEvaluate(t)
    \/ \E t \in Threads : ReadReturn(t)
    \/ \E t \in Threads : NestedRead(t)
    \/ \E t \in Threads : NestedPanic(t)
    \/ \E t \in Threads : NestedPark(t)

FacadeSpec == Init /\ [][FacadeNext]_vars

\* what a thread does on its own once it is inside a facade function; the
\* panic of a nested read() is one possible outcome, never a promised one
Progress(t) ==
    \/ GetInstance(t) \/ InitDone(t)
    \/ WriteBegin(t) \/ WriteFinish(t)
    \/ ReadEvaluate(t) \/ ReadReturn(t)
    \/ NestedRead(t)

\* fair scheduling: a running thread keeps running, and a thread waiting for
\* the lock gets it if it is free again and again
FairFacadeSpec ==
    /\ FacadeSpec
    /\ \A t \in Threads : WF_vars(Progress(t)) /\ SF_vars(Acquire(t))

\* ------------------------------------------------------ claim vocabulary
\* how often the factory F registered or passed for T ran, per the log
Count(log, T, F) == Cardinality({i \in 1..Len(log) : log[i] = [key |-> T, f |-> F]})

\* what running F against container c yields, stated from what the two
\* closure shapes do rather than from the log-keeping evaluation
FactoryYields(F, c, r) ==
    IF F.kind = "const"
    THEN r.kind = "ok" /\ r.val = F.val
    ELSE LET u == resolve(c, F.on) IN
         /\ u.kind = "ok" => r.kind = "ok" /\ r.val = u.val
         /\ u.kind \in {"err", "panic"} => r.kind = "panic"

NotFound(r) == r.kind = "err" /\ r.val = "NotFound" /\ r.log = << >>

Unchanged(c) == [c |-> c, kind |-> "ok", log |-> << >>]

\* C1: resolve returns the cached value when T has a materialized entry
\* (a factory registered for T as well changes nothing); otherwise what T's
\* registered factory yields; otherwise NotFound.  A type for which nothing
\* was registered resolves to NotFound, and a resolve call reports exactly
\* that result.
C1_ResolvePrecedence ==
    /\ \A T \in Types :
        LET r == resolve(self, T) IN
        /\ contains_key(instances, T) =>
              r.kind = "ok" /\ r.val = instances[T].val /\ r.log = << >>
        /\ (~contains_key(instances, T) /\ contains_key(bindings, T) /\ Returned(r)) =>
              /\ FactoryYields(bindings[T], self, r)
              /\ r.log[1] = [key |-> T, f |-> bindings[T]]
        /\ (~contains_key(instances, T) /\ ~contains_key(bindings, T)) => NotFound(r)
        /\ history[T].by = "none" => NotFound(r)
    /\ last.op = "resolve" =>
          /\ last.kind = resolve(self, last.key).kind
          /\ last.val = resolve(self, last.key).val

\* a resolve answered from the cache although a factory with another value
\* is registered for the same type
C1_Witness ==
    /\ last.op = "resolve" /\ last.kind = "ok"
    /\ last.pre.instance /\ last.pre.binding
    /\ bindings[last.key].kind = "const"
    /\ bindings[last.key].val # last.val

\* C2: singleton(F) for T runs F exactly once, inside the call; as long as
\* no registration for T, forget_scoped_instances or flush intervenes, every
\* resolve of T returns the value F produced then and runs no factory.
C2_SingletonCachedOnce ==
    /\ \A T \in Types, F \in Factories :
        LET out == singleton(self, T, F) IN
        out.kind = "ok" =>
            /\ Count(out.log, T, F) = 1
            /\ out.log[1] = [key |-> T, f |-> F]
            /\ resolve(out.c, T).log = << >>
    /\ \A T \in Types :
        (history[T].by = "singleton" /\ ~history[T].forgot) =>
            LET r == resolve(self, T) IN
            r.kind = "ok" /\ r.val = history[T].val /\ r.log = << >>

\* a resolve of a singleton whose factory read another type that has since
\* been registered differently: the value of registration time is returned
C2_Witness ==
    /\ last.op = "resolve" /\ last.kind = "ok"
    /\ history[last.key].by = "singleton" /\ ~history[last.key].forgot
    /\ last.val = history[last.key].val
    /\ \E U \in Types \ {last.key} :
          /\ resolve(self, U).kind = "ok"
          /\ resolve(self, U).val # last.val

\* C3: bind(F) runs F zero times; afterwards, while T has no materialized
\* entry, every resolve of T that comes back runs F exactly once and
\* returns what that run yields, and the resolve stores nothing in
\* `instances`.
C3_BindTransient ==
    /\ \A T \in Types, F \in Factories :
        LET out == bind(self, T, F)
            r == resolve(out.c, T)
        IN  /\ out.kind = "ok" /\ out.log = << >>
            /\ Returned(r) =>
                  /\ Count(r.log, T, F) = 1
                  /\ r.log[1] = [key |-> T, f |-> F]
                  /\ FactoryYields(F, out.c, r)
    /\ \A T \in Types :
        (history[T].by = "bind" /\ ~contains_key(instances, T)) =>
            LET r == resolve(self, T) IN
            Returned(r) =>
                /\ Count(r.log, T, bindings[T]) = 1
                /\ FactoryYields(bindings[T], self, r)
    /\ (last.op = "resolve" /\ ~last.pre.instance) => ~contains_key(instances, last.key)

\* a resolve of a type that has a factory and no entry returned a value and
\* left the type without an entry
C3_Witness ==
    /\ last.op = "resolve" /\ last.kind = "ok"
    /\ history[last.key].by = "bind"
    /\ last.pre.binding /\ ~last.pre.instance
    /\ ~contains_key(instances, last.key)

\* C4: right after bind(F) for T there is no materialized entry for T and
\* T's factory is F, so the next resolve returns what F yields, never a
\* value cached earlier by singleton or scoped.
C4_BindDropsCached ==
    /\ \A T \in Types, F \in Factories :
        LET out == bind(self, T, F)
            r == resolve(out.c, T)
        IN  /\ out.c.instances[T] = NoEntry
            /\ out.c.bindings[T] = F
            /\ Returned(r) => FactoryYields(F, out.c, r) /\ r.log # << >>
    /\ last.op = "bind" =>
          /\ ~contains_key(instances, last.key)
          /\ contains_key(bindings, last.key)

\* bind ran for a type that held a cached value and the value is gone
C4_Witness ==
    /\ last.op = "bind" /\ last.pre.instance
    /\ ~contains_key(instances, last.key)
    /\ resolve(self, last.key).log # << >>

\* C5: once scoped(F) registered T and forget_scoped_instances ran, T has no
\* materialized entry: resolve yields NotFound when T has no factory and
\* otherwise what T's factory yields.
C5_ForgetDropsScoped ==
    \A T \in Types :
        (history[T].by = "scoped" /\ history[T].forgot) =>
            LET r == resolve(self, T) IN
            /\ ~contains_key(instances, T)
            /\ ~contains_key(bindings, T) => NotFound(r)
            /\ (contains_key(bindings, T) /\ Returned(r)) =>
                  /\ FactoryYields(bindings[T], self, r)
                  /\ r.log[1] = [key |-> T, f |-> bindings[T]]

\* a forgotten scoped type without a factory resolved to NotFound while
\* another forgotten scoped type falls through to its factory
C5_Witness ==
    /\ last.op = "resolve" /\ last.val = "NotFound"
    /\ history[last.key].by = "scoped" /\ history[last.key].forgot
    /\ \E U \in Types \ {last.key} :
          /\ history[U].by = "scoped" /\ history[U].forgot
          /\ contains_key(bindings, U)
          /\ resolve(self, U).kind = "ok"

\* C6: flush leaves the container equal to a newly constructed one: the
\* three tables are empty, every resolve yields NotFound, and later calls
\* behave as on a new container (scoped_if registers a type again that was
\* scoped before the flush).
C6_FlushIsNew ==
    /\ flush(self) = Unchanged(new)
    /\ \A T \in Types, F \in Factories :
        /\ NotFound(resolve(flush(self).c, T))
        /\ scoped_if(flush(self).c, T, F) = scoped_if(new, T, F)
        /\ F.kind = "const" => contains_key(scoped_if(flush(self).c, T, F).c.instances, T)
    /\ last.op = "flush" =>
          /\ self = new
          /\ \A T \in Types : NotFound(resolve(self, T))

\* flush ran on a container that held a factory, a cached value and a
\* scoped mark
C6_Witness ==
    /\ last.op = "flush"
    /\ last.pre.instance /\ last.pre.binding /\ last.pre.scoped
    /\ self = new

\* C7 as claimed: a value registered by singleton(F) stays the result of
\* every resolve of T until a bind, singleton or scoped registers T again
\* or flush runs; forget_scoped_instances does not remove it, whatever
\* preceded the singleton call.
C7_SingletonSurvivesForget ==
    \A T \in Types :
        history[T].by = "singleton" =>
            LET r == resolve(self, T) IN
            r.kind = "ok" /\ r.val = history[T].val

\* C8: bind_if(F) leaves the container as it is and runs nothing when T has
\* a factory, with or without a materialized entry; when T has no factory it
\* does what bind(F) does, removing a materialized entry of T.
C8_BindIf ==
    /\ \A T \in Types, F \in Factories :
        /\ contains_key(bindings, T) => bind_if(self, T, F) = Unchanged(self)
        /\ ~contains_key(bindings, T) =>
              /\ bind_if(self, T, F) = bind(self, T, F)
              /\ bind_if(self, T, F).c.bindings[T] = F
              /\ bind_if(self, T, F).c.instances[T] = NoEntry
    /\ (last.op = "bind_if" /\ ~last.pre.binding) =>
          /\ ~contains_key(instances, last.key)
          /\ history[last.key].by = "bind"
    /\ (last.op = "bind_if" /\ last.pre.binding) =>
          /\ contains_key(instances, last.key) = last.pre.instance
          /\ last.pre.instance => history[last.key].by # "bind"

\* bind_if ran for a type that held only a cached value: the value is gone
C8_Witness ==
    /\ last.op = "bind_if"
    /\ last.pre.instance /\ ~last.pre.binding
    /\ ~contains_key(instances, last.key)
    /\ contains_key(bindings, last.key)

\* C9: singleton_if(F) leaves the container as it is and runs nothing when
\* T has a materialized entry; when T has none (a registered factory or a
\* scoped mark of a forgotten type changes nothing) it does what
\* singleton(F) does, and resolve then returns the value F produced.
C9_SingletonIf ==
    /\ \A T \in Types, F \in Factories :
        /\ contains_key(instances, T) => singleton_if(self, T, F) = Unchanged(self)
        /\ ~contains_key(instances, T) =>
              LET out == singleton_if(self, T, F) IN
              /\ out = singleton(self, T, F)
              /\ out.kind = "ok" =>
                    /\ FactoryYields(F, self, [kind |-> "ok", val |-> out.c.instances[T].val])
                    /\ resolve(out.c, T).kind = "ok"
                    /\ resolve(out.c, T).val = out.c.instances[T].val
    /\ (last.op = "singleton_if" /\ last.kind = "ok" /\ ~last.pre.instance) =>
          /\ history[last.key].by = "singleton"
          /\ resolve(self, last.key).val = history[last.key].val
    /\ (last.op = "singleton_if" /\ last.pre.instance) =>
          /\ contains_key(instances, last.key)
          /\ last.kind = "ok"

\* singleton_if ran for a forgotten scoped type that also has a factory
\* and cached a value
C9_Witness ==
    /\ last.op = "singleton_if" /\ last.kind = "ok"
    /\ ~last.pre.instance /\ last.pre.binding /\ last.pre.scoped
    /\ contains_key(instances, last.key)
    /\ resolve(self, last.key).log = << >>

\* C10: scoped_if(F) leaves the container as it is and runs nothing when T
\* is scoped-marked, with or without a materialized entry; when T is not
\* marked it does what scoped(F) does, overwriting a materialized entry
\* that was not scoped.
C10_ScopedIf ==
    /\ \A T \in Types, F \in Factories :
        /\ contains(scoped_instances, T) => scoped_if(self, T, F) = Unchanged(self)
        /\ ~contains(scoped_instances, T) =>
              LET out == scoped_if(self, T, F) IN
              /\ out = scoped(self, T, F)
              /\ contains(out.c.scoped_instances, T)
              /\ out.kind = "ok" =>
                    FactoryYields(F, self, [kind |-> "ok", val |-> out.c.instances[T].val])
    /\ (last.op = "scoped_if" /\ last.pre.scoped) =>
          /\ contains_key(instances, last.key) = last.pre.instance
          /\ last.kind = "ok"
    /\ (last.op = "scoped_if" /\ last.kind = "ok" /\ ~last.pre.scoped) =>
          /\ history[last.key].by = "scoped"
          /\ contains_key(instances, last.key)

\* scoped_if ran for a marked type whose value had been forgotten and
\* registered nothing
C10_Witness ==
    /\ last.op = "scoped_if" /\ last.kind = "ok"
    /\ last.pre.scoped /\ ~last.pre.instance
    /\ ~contains_key(instances, last.key)

\* C14: resolve leaves bindings, instances and scoped_instances as they
\* are, whatever it returns: a cached value, what a factory yields (nested
\* resolves included), NotFound or CastFailed.
C14_ResolveReadOnly ==
    [][last'.op = "resolve" =>
          UNCHANGED <<bindings, instances, scoped_instances>>]_vars

\* a resolve ran a factory that itself resolved the pool, returned a value
\* and the type still has no entry
C14_Witness ==
    /\ last.op = "resolve" /\ last.kind = "ok"
    /\ ~last.pre.instance /\ last.pre.binding
    /\ bindings[last.key].kind = "dep"
    /\ Len(resolve(self, last.key).log) = 2
    /\ ~contains_key(instances, last.key)

\* C15: when the factory panics inside singleton(F) the panic reaches the
\* caller and the container is as before the call; when it returns,
\* singleton changes the materialized entry of T and nothing else, never
\* the factory table.
C15_SingletonPanicSafe ==
    /\ \A T \in Types, F \in Factories :
        LET out == singleton(self, T, F)
            run == invoke(F, T, self, MaxDepth)
        IN  /\ out.kind = run.kind
            /\ out.kind = "panic" => out.c = self
            /\ out.kind = "ok" =>
                  /\ out.c.bindings = self.bindings
                  /\ out.c.scoped_instances = self.scoped_instances
                  /\ \A U \in Types \ {T} : out.c.instances[U] = self.instances[U]
                  /\ contains_key(out.c.instances, T)
    /\ (last.op = "singleton" /\ last.kind = "panic") =>
          /\ contains_key(instances, last.key) = last.pre.instance
          /\ contains_key(bindings, last.key) = last.pre.binding
          /\ contains(scoped_instances, last.key) = last.pre.scoped
          /\ last.pre.instance => history[last.key].by \in {"singleton", "scoped"}

\* singleton panicked for a type that held a cached value and the value is
\* still there
C15_Witness ==
    /\ last.op = "singleton" /\ last.kind = "panic"
    /\ last.pre.instance
    /\ contains_key(instances, last.key)
    /\ resolve(self, last.key).val = history[last.key].val

\* C18: forget_scoped_instances removes the materialized entries of the
\* types in scoped_instances and nothing else: bindings and
\* scoped_instances stay as they are, and so does the entry of every type
\* that is not in scoped_instances.
C18_ForgetFrame ==
    /\ LET out == forget_scoped_instances(self) IN
        /\ out.kind = "ok"
        /\ out.c.bindings = self.bindings
        /\ out.c.scoped_instances = self.scoped_instances
        /\ \A T \in Types :
              out.c.instances[T] = IF contains(scoped_instances, T)
                                   THEN NoEntry
                                   ELSE instances[T]
    /\ last.op = "forget_scoped_instances" =>
          /\ (scoped_instances # << >>) = last.pre.scoped
          /\ \A T \in Types : contains(scoped_instances, T) => ~contains_key(instances, T)
          /\ \A T \in Types :
                (history[T].by = "singleton" /\ ~contains(scoped_instances, T)) =>
                    contains_key(instances, T)

\* forget_scoped_instances ran: a marked type lost its value and stays
\* marked, an unmarked singleton and a factory are still there
C18_Witness ==
    /\ last.op = "forget_scoped_instances" /\ last.pre.scoped /\ last.pre.instance
    /\ \E T \in Types, U \in Types :
          /\ history[T].by = "scoped" /\ contains(scoped_instances, T)
          /\ ~contains_key(instances, T) /\ contains_key(bindings, T)
          /\ ~contains(scoped_instances, U) /\ contains_key(instances, U)

\* C19 as claimed: scoped_instances records each type at most once,
\* however often scoped(F) is called for the same type.
C19_ScopedIsSet ==
    \A T \in Types :
        Cardinality({i \in 1..Len(scoped_instances) : scoped_instances[i] = T}) <= 1

\* C20 as claimed: once scoped_if(F) for T has returned normally T has a
\* materialized entry, also when it is called again after
\* forget_scoped_instances.
C20_ScopedIfMaterializes ==
    (last.op = "scoped_if" /\ last.kind = "ok") => contains_key(instances, last.key)

PerTypeOps == {"bind", "bind_if", "singleton", "singleton_if", "scoped", "scoped_if"}

\* how often U stands in scoped_instances
Marks(U) == Cardinality({i \in 1..Len(scoped_instances) : scoped_instances[i] = U})

\* the factory registered for U resolves T when it runs
ResolvesThrough(U, T) == bindings[U].kind = "dep" /\ bindings[U].on = T

\* C21: a step that is bind, bind_if, singleton, singleton_if, scoped or
\* scoped_if for T (whether it returns or its factory panics) leaves, for
\* every other type U, the factory, the materialized entry and the scoped
\* mark of U as they were, and with them the result of resolve<U>(), unless
\* U's factory itself resolves T.
C21_PerTypeFrame ==
    /\ [](\A op \in PerTypeOps, T \in Types, F \in Factories :
            LET out == delegate([fn |-> op, key |-> T, f |-> F], self) IN
            Returned(out) =>
                \A U \in Types \ {T} :
                    /\ out.c.bindings[U] = bindings[U]
                    /\ out.c.instances[U] = instances[U]
                    /\ contains(out.c.scoped_instances, U) = contains(scoped_instances, U)
                    /\ ~ResolvesThrough(U, T) => resolve(out.c, U) = resolve(self, U))
    /\ [][last'.op \in PerTypeOps =>
            \A U \in Types \ {last'.key} :
                /\ bindings'[U] = bindings[U]
                /\ instances'[U] = instances[U]
                /\ Marks(U)' = Marks(U)]_vars

\* a per-type call changed T's entry while another type has a factory, a
\* materialized entry and a scoped mark of its own
C21_Witness ==
    /\ last.op \in PerTypeOps /\ last.kind = "ok"
    /\ last.pre.instance # contains_key(instances, last.key)
    /\ \E U \in Types \ {last.key} :
          /\ contains_key(bindings, U) /\ contains_key(instances, U)
          /\ contains(scoped_instances, U)
          /\ ~ResolvesThrough(U, last.key)

\* ------------------------------------------------------------ the facade
InFacade(t) == pc[t] \notin {"idle", "get_instance", "init"}

\* C16: the process-wide registry is created exactly once whatever the
\* interleaving of the first calls: the initializer has run once when any
\* thread is past get_instance, the registry it made is the empty one, and
\* what a finished writer left there is what every thread finds (nothing is
\* re-created over it), so a resolve on another thread sees the binding.
C16_CreatedOnce ==
    /\ once.inits <= 1
    /\ \A t \in Threads : InFacade(t) => once = [state |-> "done", inits |-> 1]
    /\ once.state # "done" => self = new /\ committed = new
    /\ (\A t \in Threads : pc[t] \notin {"mid", "nested"}) => self = committed
    /\ \A t \in Threads :
          pc[t] = "evaluated" =>
              LET r == resolve(committed, arg[t].key)
              IN  arg[t].kind = r.kind /\ arg[t].val = r.val

\* two threads raced for the first call, one bound T, the other resolves it
C16_Witness ==
    /\ once.inits = 1
    /\ last.op = "bind" /\ last.kind = "ok" /\ last.by = "t1"
    /\ pc["t2"] = "evaluated" /\ arg["t2"].key = last.key
    /\ arg["t2"].kind = "ok" /\ arg["t2"].val \in Values

\* C11: no two writers and no writer together with a reader hold the lock at
\* once, a half-done mutation exists only under the write guard, and a
\* resolve is evaluated on the tables as a finished writer left them: its
\* result is that of the registry entirely before or entirely after any
\* mutation (never the NotFound of the moment between bind's two statements).
C11_MutationAtomic ==
    /\ \A t, u \in Threads : t # u /\ holds[t] = "write" => holds[u] = "none"
    /\ self # committed => \E u \in Threads : holds[u] = "write"
    /\ \A t \in Threads :
          pc[t] = "evaluated" =>
              /\ holds[t] = "read"
              /\ self = committed
              /\ (contains_key(committed.instances, arg[t].key)
                    \/ contains_key(committed.bindings, arg[t].key))
                  => ~(arg[t].kind = "err" /\ arg[t].val = "NotFound")

\* T holds a singleton, a writer is between the two statements of bind (the
\* entry is gone, the factory not yet there) and a reader is waiting
C11_Witness ==
    /\ pc["t2"] = "mid" /\ arg["t2"].fn = "bind"
    /\ contains_key(committed.instances, arg["t2"].key)
    /\ ~contains_key(instances, arg["t2"].key)
    /\ ~contains_key(bindings, arg["t2"].key)
    /\ NotFound(resolve(self, arg["t2"].key))
    /\ pc["t1"] = "acquire" /\ arg["t1"].mode = "read"

\* C17: threads resolving an already materialized T with no writer around
\* are all let in (a waiting reader is granted the guard whatever the other
\* readers hold), all succeed and all get the value of the entry.
C17_ReadersShare ==
    /\ \A t \in Threads :
          (/\ pc[t] = "acquire" /\ arg[t].mode = "read"
           /\ \A u \in Threads : u # t => holds[u] \in {"none", "read"}
           /\ \A u \in Threads : arg[u].mode # "write")
          => ENABLED Acquire(t)
    /\ \A t \in Threads :
          (pc[t] = "evaluated" /\ contains_key(instances, arg[t].key))
          => arg[t].kind = "ok" /\ arg[t].val = instances[arg[t].key].val
    /\ \A t, u \in Threads :
          (pc[t] = "evaluated" /\ pc[u] = "evaluated" /\ arg[t].key = arg[u].key)
          => arg[t].kind = arg[u].kind /\ arg[t].val = arg[u].val

\* both threads hold the read guard with the same value in hand
C17_Witness ==
    /\ \A t \in Threads : pc[t] = "evaluated" /\ holds[t] = "read"
    /\ arg["t1"].key = arg["t2"].key
    /\ contains_key(instances, arg["t1"].key)
    /\ arg["t1"].kind = "ok" /\ arg["t2"].val = arg["t1"].val

\* no thread is handed a guard in this step
NoGuardGranted == \A t \in Threads : holds'[t] # holds[t] => holds'[t] = "none"

\* a call that was waiting for the lock returns Lock in this step
AcquireFailsWithLock ==
    \A t \in Threads :
        (pc[t] = "acquire" /\ pc'[t] = "idle") =>
            last'.kind = "err" /\ last'.val = "Lock"

\* C12: once a thread has panicked while holding the lock, under the write
\* guard or under the read guard, no later facade operation gets the lock:
\* each returns Lock.
C12_AnyPanicPoisons ==
    [][panics # {} => NoGuardGranted /\ AcquireFailsWithLock]_vars

\* C12: once a thread has panicked while holding the write guard the lock
\* is poisoned: no later facade operation is handed a guard, and each one
\* that gets to the lock returns Lock, which is neither NotFound nor
\* CastFailed.  A panic under the read guard leaves the lock as it was.
C12_WriterPanicPoisons ==
    /\ []("write" \in panics <=> poisoned)
    /\ [][poisoned => NoGuardGranted /\ AcquireFailsWithLock]_vars

\* a factory panicked inside a registering function and a later call came
\* back with Lock
C12_Witness ==
    /\ "write" \in panics /\ poisoned
    /\ last.kind = "err" /\ last.val = "Lock"
    /\ last.val \notin {"NotFound", "CastFailed"}

\* a factory that calls the facade is being run, or has poisoned the lock
Misuse == poisoned \/ \E u \in Threads : pc[u] \in {"nested", "parked"}

====
